---- MODULE Spec2Model ----
(***************************************************************************)
(* Model of pyeng.general.beams.deflection.BeamPointLoad: a beam object    *)
(* with nine configuration fields, property setters that recompute on a    *)
(* truthy value, and calculate_validated, which derives four boundary      *)
(* values and four result sequences from the fields.                       *)
(*                                                                         *)
(* Numbers.  A float is a pair <<n, d>>:                                   *)
(*   d > 0   the rational n/d in lowest terms (exact arithmetic stands in  *)
(*           for IEEE rounding);                                           *)
(*   d = 0   an IEEE special: <<1,0>> = +inf, <<-1,0>> = -inf,             *)
(*           <<0,0>> = NaN;                                                *)
(*   d = -1  the marker of a Python exception raised while the             *)
(*           expression was evaluated (ZeroDivisionError of float / 0.0);  *)
(*           it is absorbing, as an exception aborts the statement.        *)
(***************************************************************************)
EXTENDS Integers, Sequences, FiniteSets, TLC

\* ----------------------------------------------------------------------
\* Float arithmetic
\* ----------------------------------------------------------------------

Abs(n) == IF n < 0 THEN -n ELSE n

Sign(n) == IF n < 0 THEN -1 ELSE IF n > 0 THEN 1 ELSE 0

RECURSIVE GCD(_, _)
GCD(m, n) == IF n = 0 THEN m ELSE GCD(n, m % n)

\* n/d (d # 0) in lowest terms with a positive denominator
Norm(n, d) ==
    LET g == GCD(Abs(n), Abs(d))
        s == IF d < 0 THEN -1 ELSE 1
    IN  << s * (n \div g), s * (d \div g) >>

R(n) == << n, 1 >>

NaN == << 0, 0 >>

Raised == << 0, -1 >>

IsRaised(p) == p[2] = -1

IsFinite(p) == p[2] > 0

IsNaN(p) == p = NaN

FMul(p, q) ==
    IF IsRaised(p) \/ IsRaised(q) THEN Raised
    ELSE IF IsFinite(p) /\ IsFinite(q) THEN Norm(p[1] * q[1], p[2] * q[2])
    ELSE IF IsNaN(p) \/ IsNaN(q) \/ p[1] = 0 \/ q[1] = 0 THEN NaN
    ELSE << Sign(p[1]) * Sign(q[1]), 0 >>

FNeg(p) == IF IsRaised(p) THEN Raised ELSE << -p[1], p[2] >>

FAdd(p, q) ==
    IF IsRaised(p) \/ IsRaised(q) THEN Raised
    ELSE IF IsFinite(p) /\ IsFinite(q)
         THEN Norm(p[1] * q[2] + q[1] * p[2], p[2] * q[2])
    ELSE IF IsNaN(p) \/ IsNaN(q) THEN NaN
    ELSE IF IsFinite(p) THEN q
    ELSE IF IsFinite(q) THEN p
    ELSE IF p = q THEN p ELSE NaN

FSub(p, q) == FAdd(p, FNeg(q))

\* float / float of Python: ZeroDivisionError on a zero divisor
PyDiv(p, q) ==
    IF IsRaised(p) \/ IsRaised(q) THEN Raised
    ELSE IF q[1] = 0 /\ IsFinite(q) THEN Raised
    ELSE IF IsFinite(p) /\ IsFinite(q) THEN Norm(p[1] * q[2], p[2] * q[1])
    ELSE NaN

\* numpy.float64 / float: a zero divisor gives inf or NaN (a warning, no exception)
NpDiv(p, q) ==
    IF IsRaised(p) \/ IsRaised(q) THEN Raised
    ELSE IF IsNaN(p) \/ IsNaN(q) THEN NaN
    ELSE IF IsFinite(p) /\ IsFinite(q)
         THEN IF q[1] = 0 THEN << Sign(p[1]), 0 >>
              ELSE Norm(p[1] * q[2], p[2] * q[1])
    ELSE IF IsFinite(q) THEN << p[1] * (IF q[1] < 0 THEN -1 ELSE 1), 0 >>
    ELSE IF IsFinite(p) THEN R(0)
    ELSE NaN

Sq(p) == FMul(p, p)

Cube(p) == FMul(p, FMul(p, p))

\* p < q on finite floats (any comparison with NaN is false)
FLess(p, q) == IsFinite(p) /\ IsFinite(q) /\ p[1] * q[2] < q[1] * p[2]

FGeq(p, q) == IsFinite(p) /\ IsFinite(q) /\ p[1] * q[2] >= q[1] * p[2]

\* ----------------------------------------------------------------------
\* Python values held by the fields and attributes of the object
\* ----------------------------------------------------------------------

\* a float or int argument
Float(n) == [ty |-> "float", num |-> R(n), str |-> ""]

Integer(n) == [ty |-> "int", num |-> R(n), str |-> ""]

None == [ty |-> "NoneType", num |-> R(0), str |-> ""]

Str(s) == [ty |-> "str", num |-> R(0), str |-> s]

Bool(b) == [ty |-> "bool", num |-> R(IF b THEN 1 ELSE 0), str |-> ""]

IsNumber(v) == v.ty \in {"float", "int"}

\* bool(value), the test of "if value:" in the setters
Truthy(v) ==
    CASE v.ty = "NoneType" -> FALSE
      [] v.ty = "str" -> v.str # ""
      [] OTHER -> v.num[1] # 0

\* an attribute that holds one float (np.NaN, or a boundary value)
Scalar(q) == [kind |-> "scalar", val |-> q, elems |-> << >>]

\* an attribute that holds a sequence of floats
List(s) == [kind |-> "list", val |-> R(0), elems |-> s]

\* an attribute that was never assigned (reading it is an AttributeError)
Unset == [kind |-> "unset", val |-> R(0), elems |-> << >>]

NaNAttr == Scalar(NaN)

\* ----------------------------------------------------------------------
\* Validation of the arguments of calculate_validated
\* ----------------------------------------------------------------------

SupportOptions == {"Free", "Support", "Clamped", "Guided"}

MinLength == 0

MinModulus == 0

MinInertia == 0

MinSeed == 1

validate_float(value, hasMin, min_value) ==
    /\ IsNumber(value)
    /\ hasMin => FGeq(value.num, R(min_value))

validate_integer(value, min_value) ==
    /\ value.ty = "int"
    /\ FGeq(value.num, R(min_value))

validate_string(value, options) ==
    /\ value.ty = "str"
    /\ value.str \in options

\* kwargs['validated'] as the decorator passes it: every argument named in
\* BEAMPOINTLOAD_VALIDATORS passes the check of its type, range or options
Validated(o) ==
    /\ validate_float(o.beam_length, TRUE, MinLength)
    /\ validate_float(o.youngs_modulus, TRUE, MinModulus)
    /\ validate_float(o.moment_inertia, TRUE, MinInertia)
    /\ validate_float(o.point_load, FALSE, 0)
    /\ validate_float(o.load_xmax, FALSE, 0)
    /\ validate_string(o.supporttype_left, SupportOptions)
    /\ validate_string(o.supporttype_right, SupportOptions)
    /\ validate_integer(o.seed, MinSeed)

\* ----------------------------------------------------------------------
\* calculate_validated: the cases (region Cases)
\* ----------------------------------------------------------------------
\* A case works on the locals and boundary attributes of one call:
\*   c.reaction_left, c.moment_left, c.slope_left, c.deflection_left,
\*   c.flip, c.a and c.bound (whether the local a has been assigned).

\* the state of the call on entry of the try block
EntryLocals ==
    [reaction_left |-> NaN, moment_left |-> NaN, slope_left |-> NaN,
     deflection_left |-> NaN, flip |-> FALSE, a |-> R(0), bound |-> FALSE]

\* an exception was raised while a boundary value was evaluated
HasRaised(c) ==
    \/ IsRaised(c.reaction_left)
    \/ IsRaised(c.moment_left)
    \/ IsRaised(c.slope_left)
    \/ IsRaised(c.deflection_left)

\* a mirroring that sets flip and keeps a = load_xmax
MirrorKeepsOffset(c, o, flipped) ==
    [c EXCEPT !.flip = flipped, !.bound = TRUE, !.a = o.load_xmax.num]

\* "if supporttype_left == <clamped side>: flip = True; a = L - load_xmax
\*  else: a = load_xmax"
Mirror(c, o, flipped) ==
    IF flipped
    THEN [c EXCEPT !.flip = TRUE, !.bound = TRUE,
                   !.a = FSub(o.beam_length.num, o.load_xmax.num)]
    ELSE [c EXCEPT !.bound = TRUE, !.a = o.load_xmax.num]

IsPair(o, l, r) == o.supporttype_left.str = l /\ o.supporttype_right.str = r

\* the conditions of the six "if" statements
IsFreeClamped(o) == IsPair(o, "Free", "Clamped") \/ IsPair(o, "Clamped", "Free")

IsSupportClamped(o) == IsPair(o, "Support", "Clamped") \/ IsPair(o, "Clamped", "Support")

IsGuidedClamped(o) == IsPair(o, "Guided", "Clamped") \/ IsPair(o, "Clamped", "Guided")

\* a condition that takes every beam clamped on the left
IsClampedLeft(o) == o.supporttype_left.str = "Clamped"

IsClampedClamped(o) == IsPair(o, "Clamped", "Clamped")

IsSupportSupport(o) == IsPair(o, "Support", "Support")

\* a condition that takes the Guided/Support beam in its canonical order only
IsGuidedThenSupport(o) == IsPair(o, "Guided", "Support")

IsGuidedSupport(o) == IsPair(o, "Guided", "Support") \/ IsPair(o, "Support", "Guided")

CaseFreeClamped(c, o, rigidity) ==
    IF HasRaised(c) THEN c
    ELSE IF IsFreeClamped(o)
    THEN LET m == Mirror(c, o, o.supporttype_left.str = "Clamped")
             beam_length == o.beam_length.num
             point_load == o.point_load.num
             a == m.a
         IN  [m EXCEPT
               !.reaction_left = R(0),
               !.moment_left = R(0),
               !.slope_left =
                   PyDiv(FMul(point_load, Sq(FSub(beam_length, a))),
                         FMul(R(2), rigidity)),
               !.deflection_left =
                   FMul(PyDiv(FNeg(point_load), FMul(R(6), rigidity)),
                        FAdd(FSub(FMul(R(2), Cube(beam_length)),
                                  FMul(FMul(R(3), Sq(beam_length)), a)),
                             Cube(a)))]
    ELSE c

CaseSupportClamped(c, o, rigidity) ==
    IF HasRaised(c) THEN c
    ELSE IF IsSupportClamped(o)
    THEN LET m == Mirror(c, o, o.supporttype_left.str = "Clamped")
             beam_length == o.beam_length.num
             point_load == o.point_load.num
             a == m.a
         IN  [m EXCEPT
               !.reaction_left =
                   FMul(FMul(PyDiv(point_load, FMul(R(2), Cube(beam_length))),
                             Sq(FSub(beam_length, a))),
                        FAdd(FMul(R(2), beam_length), a)),
               !.moment_left = R(0),
               !.slope_left =
                   FMul(PyDiv(FMul(FNeg(point_load), a),
                              FMul(FMul(R(4), rigidity), beam_length)),
                        Sq(FSub(beam_length, a))),
               !.deflection_left = R(0)]
    ELSE c

CaseGuidedClamped(c, o, rigidity) ==
    IF HasRaised(c) THEN c
    ELSE IF IsGuidedClamped(o)
    THEN LET m == Mirror(c, o, o.supporttype_left.str = "Clamped")
             beam_length == o.beam_length.num
             point_load == o.point_load.num
             a == m.a
         IN  [m EXCEPT
               !.reaction_left = R(0),
               !.moment_left =
                   PyDiv(FMul(point_load, Sq(FSub(beam_length, a))),
                         FMul(R(2), beam_length)),
               !.slope_left = R(0),
               !.deflection_left =
                   FMul(FMul(PyDiv(FNeg(point_load), FMul(R(12), rigidity)),
                             Sq(FSub(beam_length, a))),
                        FAdd(beam_length, FMul(R(2), a)))]
    ELSE c

CaseClampedClamped(c, o, rigidity) ==
    IF HasRaised(c) THEN c
    ELSE IF IsClampedClamped(o)
    THEN LET m == Mirror(c, o, FALSE)
             beam_length == o.beam_length.num
             point_load == o.point_load.num
             a == m.a
         IN  [m EXCEPT
               !.reaction_left =
                   FMul(FMul(PyDiv(point_load, Cube(beam_length)),
                             Sq(FSub(beam_length, a))),
                        FAdd(beam_length, FMul(R(2), a))),
               !.moment_left =
                   FMul(PyDiv(FMul(FNeg(point_load), a), Sq(beam_length)),
                        Sq(FSub(beam_length, a))),
               !.slope_left = R(0),
               !.deflection_left = R(0)]
    ELSE c

CaseSupportSupport(c, o, rigidity) ==
    IF HasRaised(c) THEN c
    ELSE IF IsSupportSupport(o)
    THEN LET m == Mirror(c, o, FALSE)
             beam_length == o.beam_length.num
             point_load == o.point_load.num
             a == m.a
         IN  [m EXCEPT
               !.reaction_left =
                   FMul(PyDiv(point_load, beam_length), FSub(beam_length, a)),
               !.moment_left = R(0),
               !.slope_left =
                   FMul(FMul(PyDiv(FMul(FNeg(point_load), a),
                                   FMul(FMul(R(6), rigidity), beam_length)),
                             FSub(FMul(R(2), beam_length), a)),
                        FSub(beam_length, a)),
               !.deflection_left = R(0)]
    ELSE c

CaseGuidedSupport(c, o, rigidity) ==
    IF HasRaised(c) THEN c
    ELSE IF IsGuidedSupport(o)
    THEN LET m == Mirror(c, o, o.supporttype_left.str = "Support")
             beam_length == o.beam_length.num
             point_load == o.point_load.num
             a == m.a
         IN  [m EXCEPT
               !.reaction_left = R(0),
               !.moment_left = FMul(point_load, FSub(beam_length, a)),
               !.slope_left = R(0),
               !.deflection_left =
                   FMul(PyDiv(FMul(FNeg(point_load), FSub(beam_length, a)),
                              FMul(R(6), rigidity)),
                        FSub(FAdd(FMul(R(2), Sq(beam_length)),
                                  FMul(FMul(R(2), a), beam_length)),
                             Sq(a)))]
    ELSE c

\* the six "if" statements in the order of the source (none is an elif)
Cases(o, rigidity) ==
    CaseGuidedSupport(
      CaseSupportSupport(
        CaseClampedClamped(
          CaseGuidedClamped(
            CaseSupportClamped(
              CaseFreeClamped(EntryLocals, o, rigidity),
              o, rigidity),
            o, rigidity),
          o, rigidity),
        o, rigidity),
      o, rigidity)

\* ----------------------------------------------------------------------
\* calculate_validated: discretisation and result sequences
\* ----------------------------------------------------------------------

\* num equally spaced nodes from start with the end point left out
LinspaceOpen(start, stop, num) ==
    [i \in 1..num |->
        FAdd(start, FMul(R(i - 1), PyDiv(FSub(stop, start), R(num))))]

\* np.linspace(start, stop, num) for num >= 1, end point included
Linspace(start, stop, num) ==
    IF num = 1 THEN << start >>
    ELSE [i \in 1..num |->
            IF i = num THEN stop
            ELSE FAdd(start, FMul(R(i - 1), PyDiv(FSub(stop, start), R(num - 1))))]

\* np.piecewise(x, [x < a, x >= a], [0, 1.0])
Piecewise(x, a) ==
    [i \in 1..Len(x) |->
        IF FLess(x[i], a) THEN R(0) ELSE IF FGeq(x[i], a) THEN R(1) ELSE R(0)]

\* mult ** 0.0, which is 1.0 for every float, 0.0 included
PowZero(mult) == R(1)

\* np.flipud
Flipud(s) == [i \in 1..Len(s) |-> s[Len(s) + 1 - i]]

ShearForce(c, o, x, multiplier) ==
    [i \in 1..Len(x) |->
        FSub(c.reaction_left, FMul(o.point_load.num, PowZero(multiplier[i])))]

\* the bending moment with the load term at every node (no step function)
BendingMomentWithoutStep(c, o, x, multiplier) ==
    [i \in 1..Len(x) |->
        FSub(FAdd(c.moment_left, FMul(c.reaction_left, x[i])),
             FMul(o.point_load.num, FSub(x[i], c.a)))]

BendingMoment(c, o, x, multiplier) ==
    [i \in 1..Len(x) |->
        FSub(FAdd(c.moment_left, FMul(c.reaction_left, x[i])),
             FMul(FMul(o.point_load.num, multiplier[i]), FSub(x[i], c.a)))]

\* the slope without the term of the load past the offset a
SlopeWithoutLoad(c, o, rigidity, x, multiplier) ==
    [i \in 1..Len(x) |->
        FAdd(FAdd(c.slope_left,
                  NpDiv(FMul(c.moment_left, x[i]), rigidity)),
             NpDiv(FMul(c.reaction_left, Sq(x[i])), FMul(R(2), rigidity)))]

Slope(c, o, rigidity, x, multiplier) ==
    [i \in 1..Len(x) |->
        FSub(FAdd(FAdd(c.slope_left,
                       NpDiv(FMul(c.moment_left, x[i]), rigidity)),
                  NpDiv(FMul(c.reaction_left, Sq(x[i])), FMul(R(2), rigidity))),
             NpDiv(FMul(o.point_load.num, Sq(FMul(multiplier[i], FSub(x[i], c.a)))),
                   FMul(R(2), rigidity)))]

\* the deflection without the term of the load past the offset a
DeflectionWithoutLoad(c, o, rigidity, x, multiplier) ==
    [i \in 1..Len(x) |->
        FAdd(FAdd(FAdd(c.deflection_left,
                       FMul(c.slope_left, x[i])),
                  NpDiv(FMul(c.moment_left, Sq(x[i])), FMul(R(2), rigidity))),
             NpDiv(FMul(c.reaction_left, Cube(x[i])), FMul(R(6), rigidity)))]

Deflection(c, o, rigidity, x, multiplier) ==
    [i \in 1..Len(x) |->
        FSub(FAdd(FAdd(FAdd(c.deflection_left,
                            FMul(c.slope_left, x[i])),
                       NpDiv(FMul(c.moment_left, Sq(x[i])), FMul(R(2), rigidity))),
                  NpDiv(FMul(c.reaction_left, Cube(x[i])), FMul(R(6), rigidity))),
             NpDiv(FMul(o.point_load.num, Cube(FMul(multiplier[i], FSub(x[i], c.a)))),
                   FMul(R(6), rigidity)))]

\* a result reversed whatever flip is
AlwaysFlipped(c, s) == Flipud(s)

\* a result left in the order of the canonical case (no np.flipud)
Unflipped(c, s) == s

\* "if flip: <result> = np.flipud(<result>)"
Oriented(c, s) == IF c.flip THEN Flipud(s) ELSE s

\* ----------------------------------------------------------------------
\* calculate_validated: the whole call
\* ----------------------------------------------------------------------

\* a reset that also covers the axis positions and the multiplier
ResetOutputsAndAxis(o) ==
    [o EXCEPT !.reaction_left = NaNAttr, !.slope_left = NaNAttr,
              !.moment_left = NaNAttr, !.deflection_left = NaNAttr,
              !.shear_force = NaNAttr, !.bending_moment = NaNAttr,
              !.slope = NaNAttr, !.deflection = NaNAttr,
              !.x = NaNAttr, !.multiplier = NaNAttr]

\* the eight assignments of np.NaN (on entry, and again in the except block)
ResetOutputs(o) ==
    [o EXCEPT !.reaction_left = NaNAttr, !.slope_left = NaNAttr,
              !.moment_left = NaNAttr, !.deflection_left = NaNAttr,
              !.shear_force = NaNAttr, !.bending_moment = NaNAttr,
              !.slope = NaNAttr, !.deflection = NaNAttr]

\* the boundary attributes assigned by the cases before an exception, if any,
\* left the case: each case assigns reaction_left, moment_left, slope_left and
\* deflection_left in this order
BoundaryAssigned(o, c) ==
    LET r == c.bound /\ ~IsRaised(c.reaction_left)
        m == r /\ ~IsRaised(c.moment_left)
        s == m /\ ~IsRaised(c.slope_left)
        d == s /\ ~IsRaised(c.deflection_left)
    IN  [o EXCEPT
          !.reaction_left = IF r THEN Scalar(c.reaction_left) ELSE @,
          !.moment_left = IF m THEN Scalar(c.moment_left) ELSE @,
          !.slope_left = IF s THEN Scalar(c.slope_left) ELSE @,
          !.deflection_left = IF d THEN Scalar(c.deflection_left) ELSE @]

\* the result sequences (lines 304-334), each flipped when flip is set
Results(o, rigidity, c, x, multiplier) ==
    [o EXCEPT
      !.multiplier = List(multiplier),
      !.shear_force = List(Oriented(c, ShearForce(c, o, x, multiplier))),
      !.bending_moment = List(Oriented(c, BendingMoment(c, o, x, multiplier))),
      !.slope = List(Oriented(c, Slope(c, o, rigidity, x, multiplier))),
      !.deflection = List(Oriented(c, Deflection(c, o, rigidity, x, multiplier)))]

\* Discretise with the multiplier and the results evaluated on the axis the
\* object held before the call (self.x read before it is assigned)
DiscretiseStaleAxis(o, rigidity, c, x) ==
    LET held == IF o.x.kind = "list" THEN o.x.elems ELSE x
    IN  IF ~c.bound
        THEN [self |-> [o EXCEPT !.x = List(x)], exc |-> "UnboundLocalError"]
        ELSE [self |-> Results([o EXCEPT !.x = List(x)], rigidity, c, held,
                               Piecewise(held, c.a)),
              exc |-> "none"]

\* self.x is assigned; self.multiplier reads the local a, which no case
\* assigned when no case matched (UnboundLocalError)
Discretise(o, rigidity, c, x) ==
    IF ~c.bound
    THEN [self |-> [o EXCEPT !.x = List(x)], exc |-> "UnboundLocalError"]
    ELSE [self |-> Results([o EXCEPT !.x = List(x)], rigidity, c, x,
                           Piecewise(x, c.a)),
          exc |-> "none"]

\* the try block after the cases have run and left the locals c
AfterCases(o, rigidity, c) ==
    IF HasRaised(c)
    THEN [self |-> BoundaryAssigned(o, c), exc |-> "ZeroDivisionError"]
    ELSE Discretise(BoundaryAssigned(o, c), rigidity, c,
                    Linspace(R(0), o.beam_length.num, o.seed.num[1]))

\* a try block that also raises when the load is not on the beam
TryBlockLoadChecked(o, rigidity) ==
    IF \/ ~Validated(o)
       \/ ~FGeq(o.load_xmax.num, R(0))
       \/ ~FGeq(o.beam_length.num, o.load_xmax.num)
    THEN [self |-> o, exc |-> "ValueError"]
    ELSE AfterCases(o, rigidity, Cases(o, rigidity))

\* the try block without the check of kwargs['validated']
TryBlockUnvalidated(o, rigidity) == AfterCases(o, rigidity, Cases(o, rigidity))

\* the body of the try block: the object as the block leaves it and the
\* exception that ended it ("none" when it ran to its end)
TryBlock(o, rigidity) ==
    IF ~Validated(o) THEN [self |-> o, exc |-> "ValueError"]
    ELSE AfterCases(o, rigidity, Cases(o, rigidity))

\* "if fail_silently or fail_silently is None"
Silenced(o) == Truthy(o.fail_silently) \/ o.fail_silently.ty = "NoneType"

\* the except block: reset the outputs, then swallow or re-raise
ExceptBlock(o, exc) ==
    [self |-> ResetOutputs(o), raised |-> IF Silenced(o) THEN "none" ELSE exc]

\* the end of the try statement, t being what the try block left
EndTry(t) ==
    IF t.exc = "none" THEN [self |-> t.self, raised |-> "none"]
    ELSE ExceptBlock(t.self, t.exc)

\* the call after the outputs were reset: rigidity is computed outside the
\* try statement, so its TypeError leaves the call in either mode
AfterReset(o) ==
    IF ~IsNumber(o.youngs_modulus) \/ ~IsNumber(o.moment_inertia)
    THEN [self |-> o, raised |-> "TypeError"]
    ELSE EndTry(TryBlock(o, FMul(o.youngs_modulus.num, o.moment_inertia.num)))

\* calculate_validated without the eight assignments of np.NaN on entry
calculate_validated_no_entry_reset(o) == AfterReset(o)

\* calculate_validated on the object's own fields, as calculate() calls it:
\* the object after the call and the exception that left it ("none": it returned)
calculate_validated(o) == AfterReset(ResetOutputs(o))

\* calculate() that returns at once on an object whose shear force is NaN
calculate_unless_failed(o) ==
    IF o.shear_force = NaNAttr THEN [self |-> o, raised |-> "none"]
    ELSE calculate_validated(o)

calculate(o) == calculate_validated(o)

\* ----------------------------------------------------------------------
\* The object and its life: __init__, the property setters, calculate()
\* ----------------------------------------------------------------------

VARIABLES
    self,     \* the BeamPointLoad object: its nine fields and its attributes
    last,     \* the last call made on it: what was called, and how it ended
    ops,      \* number of calls made after the constructor
    fixture   \* the object was built from one of the Fixtures

vars == << self, last, ops, fixture >>

\* calls made on one object after its construction
MaxOps == 2

\* largest beam length, modulus and load position tried
MaxValue == 2

\* largest number of nodes tried
MaxSeed == 3

LengthValues == {Float(n) : n \in -1..MaxValue}

ModulusValues == {Float(n) : n \in 0..MaxValue} \cup {None}

InertiaValues == {Float(0), Float(1)}

LoadValues == {Float(0), Float(1)}

PositionValues == {Float(n) : n \in -1..MaxValue}

SupportValues == {Str(s) : s \in SupportOptions \cup {"Pinned", ""}}

SeedValues == {Integer(n) : n \in -1..MaxSeed}

ModeValues == {Bool(TRUE), Bool(FALSE), None}

OutputNames ==
    {"reaction_left", "moment_left", "slope_left", "deflection_left",
     "shear_force", "bending_moment", "slope", "deflection"}

FieldNames ==
    {"beam_length", "youngs_modulus", "moment_inertia", "point_load",
     "load_xmax", "supporttype_left", "supporttype_right", "seed",
     "fail_silently"}

\* the object before __init__ has run its body: no attribute is assigned
Blank(beam_length, youngs_modulus, moment_inertia, point_load, load_xmax, supporttype_left, supporttype_right, seed, fail_silently) ==
    [beam_length |-> beam_length, youngs_modulus |-> youngs_modulus,
     moment_inertia |-> moment_inertia, point_load |-> point_load,
     load_xmax |-> load_xmax, supporttype_left |-> supporttype_left,
     supporttype_right |-> supporttype_right, seed |-> seed,
     fail_silently |-> fail_silently,
     reaction_left |-> Unset, moment_left |-> Unset, slope_left |-> Unset,
     deflection_left |-> Unset, shear_force |-> Unset,
     bending_moment |-> Unset, slope |-> Unset, deflection |-> Unset,
     x |-> Unset, multiplier |-> Unset]

\* a new object holding the fields of o and no attribute
Fresh(o) ==
    Blank(o.beam_length, o.youngs_modulus, o.moment_inertia, o.point_load,
          o.load_xmax, o.supporttype_left, o.supporttype_right, o.seed,
          o.fail_silently)

\* the record of a call: kind is "init", "set" or "calculate"; calls is the
\* number of times the call ran calculate(); raised is the exception that
\* left the call ("none" when it returned)
Call(kind, field, value, calls, raised) ==
    [kind |-> kind, field |-> field, value |-> value, calls |-> calls,
     raised |-> raised]

\* the beams of tests/general/beams/test_deflection.py, one per case, a
\* mirrored one and an unsupported one, with the load at midspan of a beam
\* of length 2; only objects built from these receive setter calls
Fixtures ==
    {Blank(Float(2), Float(1), Float(1), Float(1), Float(1),
           Str(p[1]), Str(p[2]), Integer(MaxSeed), Bool(TRUE)) :
       p \in {<<"Free", "Clamped">>, <<"Support", "Clamped">>,
              <<"Guided", "Clamped">>, <<"Clamped", "Clamped">>,
              <<"Support", "Support">>, <<"Guided", "Support">>,
              <<"Clamped", "Free">>, <<"Free", "Free">>}}

\* the caller's view after a call that ran calculate(): r is its outcome
Ran(r, kind, field, value) ==
    /\ self' = r.self
    /\ last' = Call(kind, field, value, 1, r.raised)

\* __init__: store the nine arguments, then self.calculate()
Constructed(r, o) ==
    /\ self = r.self
    /\ last = Call("init", "", None, 1, r.raised)
    /\ ops = 0
    /\ fixture = (o \in Fixtures)

\* __init__ without its call of self.calculate()
ConstructStoreOnly(o) ==
    /\ self = o
    /\ last = Call("init", "", None, 0, "none")
    /\ ops = 0
    /\ fixture = (o \in Fixtures)

Construct(o) == Constructed(calculate(o), o)

Init ==
    \E beam_length \in LengthValues,
       youngs_modulus \in {Float(0), Float(1), None},
       load_xmax \in PositionValues,
       supporttype_left \in {Str(s) : s \in SupportOptions \cup {"Pinned"}},
       supporttype_right \in {Str(s) : s \in SupportOptions \cup {"Pinned"}},
       seed \in {Integer(0), Integer(1), Integer(MaxSeed)},
       fail_silently \in ModeValues :
        Construct(Blank(beam_length, youngs_modulus, Float(1), Float(1),
                        load_xmax, supporttype_left, supporttype_right,
                        seed, fail_silently))

\* a constructor that raised gave the caller no object to call
Usable == ~(last.kind = "init" /\ last.raised # "none") /\ ops < MaxOps

\* the object with value stored in the field: "self._<field> = value"
Store(o, field, value) == [o EXCEPT ![field] = value]

\* a setter that stores the value and never recomputes
SetterStoreOnly(field, value) ==
    /\ Usable
    /\ fixture
    /\ self' = Store(self, field, value)
    /\ last' = Call("set", field, value, 0, "none")
    /\ ops' = ops + 1
    /\ UNCHANGED fixture

\* a setter that recomputes whatever the value is (no "if value:")
SetterAlwaysRecomputes(field, value) ==
    /\ Usable
    /\ fixture
    /\ Ran(calculate(Store(self, field, value)), "set", field, value)
    /\ ops' = ops + 1
    /\ UNCHANGED fixture

\* a property setter: "self._<field> = value; if value: self.calculate()"
Setter(field, value) ==
    /\ Usable
    /\ fixture
    /\ IF Truthy(value)
       THEN Ran(calculate(Store(self, field, value)), "set", field, value)
       ELSE /\ self' = Store(self, field, value)
            /\ last' = Call("set", field, value, 0, "none")
    /\ ops' = ops + 1
    /\ UNCHANGED fixture

set_beam_length == \E value \in LengthValues : Setter("beam_length", value)

set_youngs_modulus == \E value \in ModulusValues : Setter("youngs_modulus", value)

set_moment_inertia == \E value \in InertiaValues : Setter("moment_inertia", value)

set_point_load == \E value \in LoadValues : Setter("point_load", value)

set_load_xmax == \E value \in PositionValues : Setter("load_xmax", value)

set_supporttype_left == \E value \in SupportValues : Setter("supporttype_left", value)

set_supporttype_right == \E value \in SupportValues : Setter("supporttype_right", value)

set_seed == \E value \in SeedValues : Setter("seed", value)

\* a fail_silently setter that recomputes on a truthy value like the others
StoreModeRecomputes(value) ==
    /\ Usable
    /\ fixture
    /\ IF Truthy(value)
       THEN Ran(calculate(Store(self, "fail_silently", value)),
                "set", "fail_silently", value)
       ELSE /\ self' = Store(self, "fail_silently", value)
            /\ last' = Call("set", "fail_silently", value, 0, "none")
    /\ ops' = ops + 1
    /\ UNCHANGED fixture

\* the fail_silently setter only stores the value
StoreMode(value) ==
    /\ Usable
    /\ fixture
    /\ self' = Store(self, "fail_silently", value)
    /\ last' = Call("set", "fail_silently", value, 0, "none")
    /\ ops' = ops + 1
    /\ UNCHANGED fixture

set_fail_silently == \E value \in ModeValues : StoreMode(value)

\* an explicit beam.calculate()
Calculate ==
    /\ Usable
    /\ Ran(calculate(self), "calculate", "", None)
    /\ ops' = ops + 1
    /\ UNCHANGED fixture

Next ==
    \/ set_beam_length
    \/ set_youngs_modulus
    \/ set_moment_inertia
    \/ set_point_load
    \/ set_load_xmax
    \/ set_supporttype_left
    \/ set_supporttype_right
    \/ set_seed
    \/ set_fail_silently
    \/ Calculate

Spec == Init /\ [][Next]_vars

\* ----------------------------------------------------------------------
\* The formulas over a grid of beams: every ordered pair of supports, loads
\* on and between the nodes and beyond the end, one to MaxNodes nodes
\* ----------------------------------------------------------------------

\* largest load position tried, in half units of length
MaxHalves == 4

\* largest number of nodes tried
MaxNodes == 4

\* the float n/2
Half(n) == [ty |-> "float", num |-> Norm(n, 2), str |-> ""]

GridLengths == {Float(n) : n \in 0..(MaxHalves \div 2)}

GridModuli == {Float(0), Float(1), Float(2)}

GridLoads == {Float(1), Float(2)}

GridPositions == {Half(n) : n \in 0..MaxHalves}

GridSupports == {Str(s) : s \in SupportOptions}

GridSeeds == {Integer(n) : n \in 1..MaxNodes}

\* BeamPointLoad(...) in silent mode for every beam of the grid
GridInit ==
    \E beam_length \in GridLengths,
       youngs_modulus \in GridModuli,
       point_load \in GridLoads,
       load_xmax \in GridPositions,
       supporttype_left \in GridSupports,
       supporttype_right \in GridSupports,
       seed \in GridSeeds :
        Construct(Blank(beam_length, youngs_modulus, Float(1), point_load,
                        load_xmax, supporttype_left, supporttype_right,
                        seed, Bool(TRUE)))

\* "beam.seed = value" as the first call on a beam of the grid
Resample(value) ==
    /\ Usable
    /\ ops = 0
    /\ IF Truthy(value)
       THEN Ran(calculate(Store(self, "seed", value)), "set", "seed", value)
       ELSE /\ self' = Store(self, "seed", value)
            /\ last' = Call("set", "seed", value, 0, "none")
    /\ ops' = ops + 1
    /\ UNCHANGED fixture

GridNext ==
    \/ Calculate
    \/ \E value \in GridSeeds : Resample(value)

GridSpec == GridInit /\ [][GridNext]_vars

\* ----------------------------------------------------------------------
\* Vocabulary of the properties
\* ----------------------------------------------------------------------

BoundaryNames == {"reaction_left", "moment_left", "slope_left", "deflection_left"}

ResultNames == {"shear_force", "bending_moment", "slope", "deflection"}

\* the eight readable outputs of an object
Outputs(o) == [n \in OutputNames |-> o[n]]

\* the caller holds the object (its constructor returned)
Exists == ~(last.kind = "init" /\ last.raised # "none")

\* what a full recomputation from the current field values produces
Recomputed(o) == calculate(Fresh(o))

\* the outputs are those of a recomputation from the current fields
UpToDate(o) == Outputs(o) = Outputs(Recomputed(o).self)

AllNaN(o) == \A n \in OutputNames : o[n] = NaNAttr

\* the ordered pairs the six cases accept
SupportedPairs ==
    {<<"Free", "Clamped">>, <<"Clamped", "Free">>,
     <<"Support", "Clamped">>, <<"Clamped", "Support">>,
     <<"Guided", "Clamped">>, <<"Clamped", "Guided">>,
     <<"Clamped", "Clamped">>, <<"Support", "Support">>,
     <<"Guided", "Support">>, <<"Support", "Guided">>}

\* Free/Free, Free/Support, Support/Free, Free/Guided, Guided/Free, Guided/Guided
UnsupportedPairs == (SupportOptions \X SupportOptions) \ SupportedPairs

PairOf(o) == << o.supporttype_left.str, o.supporttype_right.str >>

\* every boundary value is a finite float and every result a sequence of
\* seed finite floats
Populated(o) ==
    /\ \A n \in BoundaryNames : o[n].kind = "scalar" /\ IsFinite(o[n].val)
    /\ \A n \in ResultNames :
          /\ o[n].kind = "list"
          /\ Len(o[n].elems) = o.seed.num[1]
          /\ \A i \in 1..Len(o[n].elems) : IsFinite(o[n].elems[i])

\* an output that reads as NaN: the scalar np.NaN, or a sequence with a NaN in it
ReadsNaN(a) ==
    \/ a.kind = "scalar" /\ ~IsFinite(a.val)
    \/ a.kind = "list" /\ \E i \in 1..Len(a.elems) : ~IsFinite(a.elems[i])

ZeroRigidity(o) ==
    /\ IsNumber(o.youngs_modulus)
    /\ IsNumber(o.moment_inertia)
    /\ FMul(o.youngs_modulus.num, o.moment_inertia.num) = R(0)

\* the computation on the fields of o fails: a validation failure, an
\* unsupported pair, or a division by the zero rigidity
Fails(o) ==
    \/ ~Validated(o)
    \/ PairOf(o) \notin SupportedPairs
    \/ ZeroRigidity(o)

\* ----------------------------------------------------------------------
\* C1..C10
\* ----------------------------------------------------------------------

\* C1: after any sequence of constructor, setter (any value, falsy ones
\* included) and calculate() calls, the eight outputs equal what a full
\* recomputation from the current fields produces: no stale result is readable.
C1_NoStaleResult == Exists => UpToDate(self)

\* C2 as stated: every property mutator, fail_silently included, called with
\* a truthy value has stored the value and run calculate() when it returns.
C2_EveryTruthySetterRecomputes ==
    (last.kind = "set" /\ Truthy(last.value)) =>
        /\ self[last.field] = last.value
        /\ last.calls = 1
        /\ UpToDate(self)

\* C2 as amended: every property mutator other than fail_silently, called with
\* a truthy value, has stored the value and run calculate() when it returns
\* or raises; the fail_silently setter stores the value and never recomputes.
C2_TruthySetterRecomputes ==
    /\ (last.kind = "set" /\ Truthy(last.value) /\ last.field # "fail_silently") =>
          /\ self[last.field] = last.value
          /\ last.calls = 1
          /\ UpToDate(self)
    /\ (last.kind = "set" /\ last.field = "fail_silently") =>
          /\ self.fail_silently = last.value
          /\ last.calls = 0

\* a truthy setter call has recomputed results that differ from those of the
\* fixture the object was built as (youngs_modulus 1 replaced by 2)
C2_Witness ==
    /\ last.kind = "set"
    /\ last.field = "youngs_modulus"
    /\ last.value = Float(2)
    /\ ops = 1
    /\ last.calls = 1
    /\ Populated(self)

\* C3: a setter called with a falsy value stores the value and leaves the
\* four boundary values, the four result sequences, x and multiplier as
\* they were before the call.
C3_FalsySetterKeepsResults ==
    [][(last'.kind = "set" /\ ~Truthy(last'.value)) =>
          /\ self'[last'.field] = last'.value
          /\ last'.calls = 0
          /\ last'.raised = "none"
          /\ \A n \in OutputNames \cup {"x", "multiplier"} : self'[n] = self[n]
      ]_vars

\* a falsy value was stored and the results on the object are defined but
\* are not those of its current fields
C3_Witness ==
    /\ last.kind = "set"
    /\ ~Truthy(last.value)
    /\ last.field = "load_xmax"
    /\ Populated(self)
    /\ ~UpToDate(self)

\* C4 as stated: for every valid configuration with a supported pair the
\* constructor leaves the boundary values and the results populated (not NaN).
C4_ConstructorPopulatesValid ==
    (last.kind = "init" /\ Validated(self) /\ PairOf(self) \in SupportedPairs) =>
        (last.raised = "none" /\ Populated(self))

\* C4 as amended: the constructor runs the computation before it returns; for
\* every valid configuration with a supported pair, a beam length above zero
\* and a rigidity above zero, the boundary values and the results are
\* populated (finite) as soon as the object exists.
C4_ConstructorPopulates ==
    /\ last.kind = "init" => last.calls = 1 /\ (Exists => UpToDate(self))
    /\ (/\ last.kind = "init"
        /\ Validated(self)
        /\ PairOf(self) \in SupportedPairs
        /\ self.beam_length.num # R(0)
        /\ ~ZeroRigidity(self)) =>
          (last.raised = "none" /\ Populated(self))

\* a mirrored beam of length 2 with the load at its left end exists,
\* populated, right after its construction
C4_Witness ==
    /\ last.kind = "init"
    /\ ops = 0
    /\ PairOf(self) = <<"Clamped", "Guided">>
    /\ self.load_xmax = Float(0)
    /\ self.beam_length = Float(2)
    /\ Populated(self)

\* C5: after setter calls followed by an explicit calculate(), the outputs
\* (and the exception, if any) are those of a freshly constructed object with
\* the same field values.
C5_CalculateMatchesFresh ==
    last.kind = "calculate" =>
        /\ UpToDate(self)
        /\ last.raised = Recomputed(self).raised

\* a falsy setter moved the load of a fixture to 0 without recomputing, and
\* the explicit calculate() that followed gave defined results
C5_Witness ==
    /\ last.kind = "calculate"
    /\ fixture
    /\ ops = 2
    /\ self.load_xmax = Float(0)
    /\ Populated(self)

\* C6: calculate() called right after a call that ran the calculation, with
\* no field changed in between, leaves every boundary value, every result,
\* x and multiplier as they were, and ends the same way.
C6_CalculateIdempotent ==
    [][(last.calls = 1 /\ last'.kind = "calculate") =>
          /\ self' = self
          /\ last'.raised = last.raised
      ]_vars

\* calculate() was called twice in a row on an object with defined results
C6_Witness ==
    /\ last.kind = "calculate"
    /\ ~fixture
    /\ ops = 2
    /\ Populated(self)

\* C7: for every unsupported ordered pair and fail_silently=True, construction
\* or recompute raises no exception and leaves the eight outputs NaN.
C7_UnsupportedSilentNaN ==
    (/\ last.calls = 1
     /\ PairOf(self) \in UnsupportedPairs
     /\ self.fail_silently = Bool(TRUE)) =>
        (last.raised = "none" /\ AllNaN(self))

\* C8: with fail_silently=False, any failure of the computation (validation
\* failure, unsupported pair, division by zero) leaves calculate(), the
\* setter or the constructor as an exception.
C8_StrictFailureRaises ==
    (last.calls = 1 /\ self.fail_silently = Bool(FALSE) /\ Fails(self)) =>
        last.raised # "none"

\* C9: with fail_silently=True no construction, setter or calculate() call
\* raises, whatever the field values; the failed call returns with the
\* outputs NaN.
C9_SilentNeverRaises ==
    self.fail_silently = Bool(TRUE) =>
        /\ last.raised = "none"
        /\ (last.calls = 1 /\ Fails(self)) => AllNaN(self)

\* C10: after a recompute that fails at any step, in either mode, the eight
\* outputs are NaN together: no state has some of them NaN and others
\* holding values.
C10_FailureAtomic ==
    /\ (last.calls = 1 /\ Fails(self)) => AllNaN(self)
    /\ (\E n \in OutputNames : ReadsNaN(self[n])) => AllNaN(self)

\* ----------------------------------------------------------------------
\* C11..C20
\* ----------------------------------------------------------------------

\* a result attribute is a sequence of seed values, one per element of x
Aligned(o, n) ==
    /\ o[n].kind = "list"
    /\ Len(o[n].elems) = o.seed.num[1]
    /\ o.x.kind = "list"
    /\ Len(o.x.elems) = Len(o[n].elems)

\* C11: in every reachable state of an object, shear_force, bending_moment,
\* slope and deflection are sequences whose length is the current seed and
\* whose element i belongs to x[i].
C11_ResultsMatchSeed ==
    Exists => \A n \in ResultNames : Aligned(self, n)

\* the conditions of the six cases that hold for the supports of o
Matching(o) ==
    {k \in 1..6 :
       CASE k = 1 -> IsFreeClamped(o)
         [] k = 2 -> IsSupportClamped(o)
         [] k = 3 -> IsGuidedClamped(o)
         [] k = 4 -> IsClampedClamped(o)
         [] k = 5 -> IsSupportSupport(o)
         [] k = 6 -> IsGuidedSupport(o)}

\* the locals that case k alone leaves when it runs on the entry state
Alone(k, o, rigidity) ==
    CASE k = 1 -> CaseFreeClamped(EntryLocals, o, rigidity)
      [] k = 2 -> CaseSupportClamped(EntryLocals, o, rigidity)
      [] k = 3 -> CaseGuidedClamped(EntryLocals, o, rigidity)
      [] k = 4 -> CaseClampedClamped(EntryLocals, o, rigidity)
      [] k = 5 -> CaseSupportSupport(EntryLocals, o, rigidity)
      [] k = 6 -> CaseGuidedSupport(EntryLocals, o, rigidity)

\* the six unordered pairs of the supported cases
SupportedSets ==
    {{"Free", "Clamped"}, {"Support", "Clamped"}, {"Guided", "Clamped"},
     {"Clamped"}, {"Support"}, {"Guided", "Support"}}

RigidityOf(o) == FMul(o.youngs_modulus.num, o.moment_inertia.num)

\* C12: for every ordered pair of supports over the four options at most one
\* of the six case conditions holds; exactly one holds when the unordered
\* pair is one of the six supported ones and none otherwise; what the chain
\* of six "if" statements leaves is what the one matching case alone leaves.
C12_OneCasePerPair ==
    /\ Cardinality(Matching(self)) <= 1
    /\ {self.supporttype_left.str, self.supporttype_right.str} \in SupportedSets
          <=> Cardinality(Matching(self)) = 1
    /\ \A k \in Matching(self) :
          Cases(self, RigidityOf(self)) = Alone(k, self, RigidityOf(self))
    /\ Matching(self) = {} => Cases(self, RigidityOf(self)) = EntryLocals

\* a beam of the last case (Support/Guided, mirrored) was computed
C12_Witness ==
    /\ PairOf(self) = <<"Support", "Guided">>
    /\ Matching(self) = {6}
    /\ last.calls = 1
    /\ Populated(self)

\* the beam with the supports of o swapped and the load at beam_length - load_xmax
Swapped(o) ==
    [Fresh(o) EXCEPT
       !.supporttype_left = o.supporttype_right,
       !.supporttype_right = o.supporttype_left,
       !.load_xmax = [ty |-> "float",
                      num |-> FSub(o.beam_length.num, o.load_xmax.num),
                      str |-> ""]]

\* the load is on the beam: 0 <= load_xmax <= beam_length
LoadOnBeam(o) ==
    /\ FGeq(o.load_xmax.num, R(0))
    /\ FGeq(o.beam_length.num, o.load_xmax.num)

\* result n of o is result n of p in reversed index order
Reversed(o, p, n) ==
    /\ o[n].kind = "list"
    /\ p[n].kind = "list"
    /\ o[n].elems = Flipud(p[n].elems)

\* the last call computed defined results for a supported pair with the load
\* on the beam
Solved ==
    /\ last.calls = 1
    /\ PairOf(self) \in SupportedPairs
    /\ LoadOnBeam(self)
    /\ Populated(self)

\* C13 as stated: for each of the six supported pairs and every load position
\* in [0, L], the beam (A, B) with the load at p and the beam (B, A) with the
\* load at L - p have the same shear_force, bending_moment, slope and
\* deflection in reversed index order.
C13_MirrorReversesAll ==
    Solved =>
        \A n \in ResultNames : Reversed(self, calculate(Swapped(self)).self, n)

\* result n of o is result n of p in reversed index order with the opposite sign
ReversedNegated(o, p, n) ==
    /\ o[n].kind = "list"
    /\ p[n].kind = "list"
    /\ o[n].elems = [i \in 1..Len(p[n].elems) |-> FNeg(Flipud(p[n].elems)[i])]

\* what holds between a solved beam o and its swapped beam p
MirrorLaw(o, p) ==
    IF o.supporttype_left # o.supporttype_right
    THEN \A n \in ResultNames : Reversed(o, p, n)
    ELSE o.seed.num[1] >= 2 =>
           /\ Reversed(o, p, "bending_moment")
           /\ Reversed(o, p, "deflection")
           /\ ReversedNegated(o, p, "slope")

\* C13 as amended: for the four supported pairs of two different supports and
\* every load position in [0, L], the beam (A, B) with the load at p and the
\* beam (B, A) with the load at L - p have the same four result sequences in
\* reversed index order; for Clamped/Clamped and Support/Support with two or
\* more nodes the bending moment and the deflection are reversed and the
\* slope is reversed with the opposite sign.
C13_MirrorReverses ==
    Solved => MirrorLaw(self, calculate(Swapped(self)).self)

\* a mirrored beam with the load off midspan was solved on four nodes, and
\* its deflection is not the same read from either end
C13_Witness ==
    /\ Solved
    /\ PairOf(self) = <<"Clamped", "Support">>
    /\ self.beam_length = Float(2)
    /\ self.load_xmax = Half(1)
    /\ self.seed = Integer(MaxNodes)
    /\ self.deflection.elems # Flipud(self.deflection.elems)
    /\ Reversed(self, calculate(Swapped(self)).self, "deflection")

\* slope and deflection are zero at index i of the results of o
FixedAt(o, i) ==
    /\ o.slope.elems[i] = R(0)
    /\ o.deflection.elems[i] = R(0)

\* the law of the clamped ends: index 1 is the left end, the last index the
\* right end
ClampedEndsFixed(o) ==
    /\ o.supporttype_left.str = "Clamped" => FixedAt(o, 1)
    /\ o.supporttype_right.str = "Clamped" => FixedAt(o, Len(o.slope.elems))

\* C14 as stated: whenever an end of a solved beam is Clamped, the slope and
\* the deflection reported at that end (index 0 for the left end, the last
\* index for the right end) are zero.
C14_ClampedEndsFixedAlways == Solved => ClampedEndsFixed(self)

\* C14 as amended: the same for a beam sampled on two or more nodes.
C14_ClampedEndsFixed ==
    (Solved /\ self.seed.num[1] >= 2) => ClampedEndsFixed(self)

\* a beam clamped on the right with the load between two nodes was solved,
\* and its free left end has moved
C14_Witness ==
    /\ Solved
    /\ PairOf(self) = <<"Free", "Clamped">>
    /\ self.beam_length = Float(2)
    /\ self.load_xmax = Half(1)
    /\ self.seed = Integer(3)
    /\ self.deflection.elems[1] # R(0)
    /\ FixedAt(self, 3)

\* the last element of result n of o (the right end)
AtRight(o, n) == o[n].elems[Len(o[n].elems)]

\* the first element of result n of o (the left end)
AtLeft(o, n) == o[n].elems[1]

\* C15: for a solved Support/Support beam with the load P at distance a from
\* the left end, 0 <= a <= L: at the right end the shear force is -P*a/L and
\* the bending moment and the deflection are 0; at the left end the
\* deflection and the bending moment are 0.
C15_SimplySupportedEnds ==
    (Solved /\ PairOf(self) = <<"Support", "Support">>) =>
        /\ AtRight(self, "shear_force") =
              FNeg(PyDiv(FMul(self.point_load.num, self.load_xmax.num),
                         self.beam_length.num))
        /\ AtRight(self, "bending_moment") = R(0)
        /\ AtRight(self, "deflection") = R(0)
        /\ AtLeft(self, "deflection") = R(0)
        /\ AtLeft(self, "bending_moment") = R(0)

\* a Support/Support beam of length 2 with the load 2 at 1/2 was solved on
\* four nodes: the shear force at the right end is -1/2 and the beam sags
\* between the supports
C15_Witness ==
    /\ Solved
    /\ PairOf(self) = <<"Support", "Support">>
    /\ self.beam_length = Float(2)
    /\ self.point_load = Float(2)
    /\ self.load_xmax = Half(1)
    /\ self.seed = Integer(MaxNodes)
    /\ AtRight(self, "shear_force") = << -1, 2 >>
    /\ self.deflection.elems[2] # R(0)

\* the law of the cantilever free on the left: shear force -P and bending
\* moment -P*(L - a) at the clamped end
CantileverClampedEnd(o) ==
    /\ AtRight(o, "shear_force") = FNeg(o.point_load.num)
    /\ AtRight(o, "bending_moment") =
          FNeg(FMul(o.point_load.num, FSub(o.beam_length.num, o.load_xmax.num)))

\* the deflection of o is zero at every node
Undeflected(o) ==
    \A i \in 1..Len(o.deflection.elems) : o.deflection.elems[i] = R(0)

\* C16 as stated: for a solved Free/Clamped cantilever with the load P at
\* distance a from the free end, the shear force at the clamped end is -P
\* and the bending moment there is -P*(L - a); for Clamped/Free with
\* load_xmax = 0 the deflection is zero at every node.
C16_CantileverAlways ==
    /\ (Solved /\ PairOf(self) = <<"Free", "Clamped">>) =>
          CantileverClampedEnd(self)
    /\ (Solved /\ PairOf(self) = <<"Clamped", "Free">>
               /\ self.load_xmax.num = R(0)) => Undeflected(self)

\* C16 as amended: the values at the clamped end hold for two or more nodes.
C16_Cantilever ==
    /\ (Solved /\ PairOf(self) = <<"Free", "Clamped">>
               /\ self.seed.num[1] >= 2) => CantileverClampedEnd(self)
    /\ (Solved /\ PairOf(self) = <<"Clamped", "Free">>
               /\ self.load_xmax.num = R(0)) => Undeflected(self)

\* a Free/Clamped cantilever of length 2 with the load 2 at 1/2 was solved on
\* three nodes: the bending moment at the clamp is -3
C16_Witness ==
    /\ Solved
    /\ PairOf(self) = <<"Free", "Clamped">>
    /\ self.beam_length = Float(2)
    /\ self.point_load = Float(2)
    /\ self.load_xmax = Half(1)
    /\ self.seed = Integer(3)
    /\ AtRight(self, "bending_moment") = R(-3)
    /\ ~Undeflected(self)

\* the magnitude of a finite float
Magnitude(p) == << Abs(p[1]), p[2] >>

\* the load of o is at midspan
LoadAtMidspan(o) == FMul(R(2), o.load_xmax.num) = o.beam_length.num

\* the distance of node i of o from midspan, doubled
FromMidspan(o, i) ==
    Magnitude(FSub(FMul(R(2), o.x.elems[i]), o.beam_length.num))

\* the nodes of o nearest to midspan
NearestMidspan(o) ==
    {i \in 1..Len(o.x.elems) :
       \A j \in 1..Len(o.x.elems) : FGeq(FromMidspan(o, j), FromMidspan(o, i))}

\* C17: for a solved Support/Support beam with the load at midspan, the
\* deflection is the same read from either end, and no node has a larger
\* deflection in magnitude than the node nearest to midspan.
C17_MidspanSymmetry ==
    (Solved /\ PairOf(self) = <<"Support", "Support">> /\ LoadAtMidspan(self)) =>
        /\ self.deflection.elems = Flipud(self.deflection.elems)
        /\ NearestMidspan(self) # {}
        /\ \A m \in NearestMidspan(self) :
              \A j \in 1..Len(self.deflection.elems) :
                 FGeq(Magnitude(self.deflection.elems[m]),
                      Magnitude(self.deflection.elems[j]))

\* a Support/Support beam of length 1 with the load at 1/2 was solved on
\* four nodes, none of them at midspan: the two inner nodes sag
C17_Witness ==
    /\ Solved
    /\ PairOf(self) = <<"Support", "Support">>
    /\ self.beam_length = Float(1)
    /\ self.load_xmax = Half(1)
    /\ self.seed = Integer(MaxNodes)
    /\ NearestMidspan(self) = {2, 3}
    /\ FLess(self.deflection.elems[2], R(0))
    /\ self.deflection.elems[1] = R(0)

\* the four boundary values of an object
Boundary(o) == [n \in BoundaryNames |-> o[n]]

\* the object a constructor call with the fields of o and the seed n leaves
Reseeded(o, n) == calculate(Store(Fresh(o), "seed", Integer(n))).self

\* objects with the fields of o and any two valid seeds have the same
\* boundary values
SeedIndependent(o) ==
    \A n \in MinSeed..MaxSeed : Boundary(Reseeded(o, n)) = Boundary(Reseeded(o, MinSeed))

\* the step is a call of the seed setter with a valid seed
SeedStep ==
    /\ last'.kind = "set"
    /\ last'.field = "seed"
    /\ validate_integer(last'.value, MinSeed)

\* C18: two objects that differ only in a valid seed have the same
\* reaction_left, moment_left, slope_left and deflection_left, and a call of
\* the seed setter never changes these four values.
C18_SeedKeepsBoundary ==
    [][/\ SeedIndependent(self)
       /\ SeedStep => Boundary(self') = Boundary(self)
      ]_vars

\* the locals flip and a as the cases leave them for the fields of o
LocalsOf(o) == Cases(o, RigidityOf(o))

\* the Clamped cases that are mirrored
ClampedPairs ==
    {<<"Free", "Clamped">>, <<"Clamped", "Free">>,
     <<"Support", "Clamped">>, <<"Clamped", "Support">>,
     <<"Guided", "Clamped">>, <<"Clamped", "Guided">>}

\* flip is set and a = beam_length - load_xmax
MirroredOffset(o) ==
    /\ LocalsOf(o).flip
    /\ LocalsOf(o).a = FSub(o.beam_length.num, o.load_xmax.num)

\* flip is clear and a = load_xmax
DirectOffset(o) ==
    /\ ~LocalsOf(o).flip
    /\ LocalsOf(o).a = o.load_xmax.num

\* C19 as stated: for {Free,Clamped}, {Support,Clamped} and {Guided,Clamped}
\* flip is set and a = beam_length - load_xmax exactly when the Clamped end
\* is on the right; with the Clamped end on the left flip is clear and
\* a = load_xmax.
C19_FlipWhenClampedRight ==
    (last.calls = 1 /\ PairOf(self) \in ClampedPairs) =>
        IF self.supporttype_right.str = "Clamped"
        THEN MirroredOffset(self)
        ELSE DirectOffset(self)

\* C19 as amended: for {Free,Clamped}, {Support,Clamped} and {Guided,Clamped}
\* flip is set and a = beam_length - load_xmax exactly when the Clamped end
\* is on the left; with the Clamped end on the right flip is clear and
\* a = load_xmax.
C19_FlipWhenClampedLeft ==
    (last.calls = 1 /\ PairOf(self) \in ClampedPairs) =>
        IF self.supporttype_left.str = "Clamped"
        THEN MirroredOffset(self)
        ELSE DirectOffset(self)

\* a Clamped/Guided beam of length 2 with the load at 1/2 was solved with
\* a = 3/2: of its three nodes only the last is past the offset
C19_Witness ==
    /\ Solved
    /\ PairOf(self) = <<"Clamped", "Guided">>
    /\ self.beam_length = Float(2)
    /\ self.load_xmax = Half(1)
    /\ self.seed = Integer(3)
    /\ LocalsOf(self).a = << 3, 2 >>
    /\ self.multiplier = List(<< R(0), R(0), R(1) >>)

\* the four results of o are those of the formulas on x in the order of x
Unreversed(o) ==
    /\ o.shear_force =
          List(ShearForce(LocalsOf(o), o, o.x.elems, o.multiplier.elems))
    /\ o.bending_moment =
          List(BendingMoment(LocalsOf(o), o, o.x.elems, o.multiplier.elems))
    /\ o.slope =
          List(Slope(LocalsOf(o), o, RigidityOf(o), o.x.elems, o.multiplier.elems))
    /\ o.deflection =
          List(Deflection(LocalsOf(o), o, RigidityOf(o), o.x.elems, o.multiplier.elems))

\* C20: for Clamped/Clamped and Support/Support flip is never set and
\* a = load_xmax, and none of the four results of a solved beam is reversed.
C20_SymmetricPairsDirect ==
    (last.calls = 1
       /\ PairOf(self) \in {<<"Clamped", "Clamped">>, <<"Support", "Support">>}) =>
        /\ DirectOffset(self)
        /\ Solved => Unreversed(self)

\* a Clamped/Clamped beam of length 2 with the load at 1/2 was solved on four
\* nodes with a = 1/2, and its bending moment differs read from either end
C20_Witness ==
    /\ Solved
    /\ PairOf(self) = <<"Clamped", "Clamped">>
    /\ self.beam_length = Float(2)
    /\ self.load_xmax = Half(1)
    /\ self.seed = Integer(MaxNodes)
    /\ LocalsOf(self).a = << 1, 2 >>
    /\ self.bending_moment.elems # Flipud(self.bending_moment.elems)

\* ----------------------------------------------------------------------
\* C21..C30
\* ----------------------------------------------------------------------

\* the fields of o pass validation, and its length and rigidity are above zero
Nondegenerate(o) ==
    /\ Validated(o)
    /\ o.beam_length.num # R(0)
    /\ ~ZeroRigidity(o)

\* the object a constructor call with the fields of o and the supports pr leaves
Supported(o, pr) ==
    calculate([Fresh(o) EXCEPT !.supporttype_left = Str(pr[1]),
                               !.supporttype_right = Str(pr[2])]).self

\* the ordered pairs of supports that give defined results with the other
\* fields of o
DefinedPairs(o) ==
    {pr \in SupportOptions \X SupportOptions : Populated(Supported(o, pr))}

\* the beam was built with the default supports and nondegenerate fields
BuiltWithDefaults ==
    /\ last.kind = "init"
    /\ Nondegenerate(self)
    /\ PairOf(self) = <<"Support", "Support">>

\* C21 as stated: the six cases and the mirroring give defined results for
\* twelve of the sixteen ordered pairs of supports.
C21_TwelveOrderedPairs ==
    BuiltWithDefaults => Cardinality(DefinedPairs(self)) = 12

\* C21 as amended: the six cases and the mirroring give defined results for
\* ten of the sixteen ordered pairs of supports: two orders of each of
\* {Free,Clamped}, {Support,Clamped}, {Guided,Clamped} and {Guided,Support},
\* and Clamped/Clamped and Support/Support.
C21_TenOrderedPairs ==
    /\ Cardinality(SupportedPairs) = 10
    /\ BuiltWithDefaults => DefinedPairs(self) = SupportedPairs
    /\ (last.kind = "init" /\ Nondegenerate(self)) =>
          (Populated(self) <=> PairOf(self) \in SupportedPairs)

\* a mirrored beam (Support/Guided) with the load between two nodes was
\* built with defined results
C21_Witness ==
    /\ last.kind = "init"
    /\ Nondegenerate(self)
    /\ PairOf(self) = <<"Support", "Guided">>
    /\ self.load_xmax = Half(1)
    /\ self.seed = Integer(MaxNodes)
    /\ Populated(self)

\* result n of o in the order of the canonical case (before np.flipud)
Canonical(o, n) ==
    IF LocalsOf(o).flip THEN Flipud(o[n].elems) ELSE o[n].elems

\* the unit step at the offset a: 0 for x < a, 1 for x >= a
Step(x, a) == IF FLess(x, a) THEN R(0) ELSE R(1)

\* C22: in canonical orientation the shear force at x is
\* reaction_left - point_load*H(x): reaction_left left of the load, and
\* point_load less at and right of the load.
C22_ShearStepsAtLoad ==
    Solved =>
        \A i \in 1..Len(self.x.elems) :
           Canonical(self, "shear_force")[i] =
              FSub(self.reaction_left.val,
                   FMul(self.point_load.num,
                        Step(self.x.elems[i], LocalsOf(self).a)))

\* moment_left + reaction_left*x, the bending moment without the load term
MomentLeftOfLoad(o, x) ==
    FAdd(o.moment_left.val, FMul(o.reaction_left.val, x))

\* C23: in canonical orientation the bending moment at x is
\* moment_left + reaction_left*x - point_load*H(x)*(x - a); at a node on the
\* load (x = a) the load term is zero, so the moment is continuous there, and
\* at x = 0 with a > 0 the moment is moment_left.
C23_MomentFormula ==
    Solved =>
        \A i \in 1..Len(self.x.elems) :
           /\ Canonical(self, "bending_moment")[i] =
                 FSub(MomentLeftOfLoad(self, self.x.elems[i]),
                      FMul(FMul(self.point_load.num,
                                Step(self.x.elems[i], LocalsOf(self).a)),
                           FSub(self.x.elems[i], LocalsOf(self).a)))
           /\ self.x.elems[i] = LocalsOf(self).a =>
                 Canonical(self, "bending_moment")[i] =
                    MomentLeftOfLoad(self, self.x.elems[i])
           /\ (self.x.elems[i] = R(0) /\ FLess(R(0), LocalsOf(self).a)) =>
                 Canonical(self, "bending_moment")[i] = self.moment_left.val

\* a Support/Support beam of length 2 with the load 2 on its middle node was
\* solved on three nodes: the moment is 0, 1, 0
C23_Witness ==
    /\ Solved
    /\ PairOf(self) = <<"Support", "Support">>
    /\ self.beam_length = Float(2)
    /\ self.point_load = Float(2)
    /\ self.load_xmax = Float(1)
    /\ self.seed = Integer(3)
    /\ self.bending_moment.elems = << R(0), R(1), R(0) >>

\* the nodes s are equally spaced: every step is the first step
EquallySpaced(s) ==
    \A i \in 1..(Len(s) - 1) : FSub(s[i + 1], s[i]) = FSub(s[2], s[1])

\* C24: the axis positions of a computed beam are seed equally spaced points
\* with x[0] = 0 and, for seed >= 2, x[seed-1] = beam_length; with seed = 1
\* the computation of a valid supported beam does not fail: x is the single
\* position 0 and every result has one element.
C24_AxisPositions ==
    /\ (last.calls = 1 /\ Populated(self)) =>
          /\ self.x.kind = "list"
          /\ Len(self.x.elems) = self.seed.num[1]
          /\ self.x.elems[1] = R(0)
          /\ EquallySpaced(self.x.elems)
          /\ self.seed.num[1] >= 2 =>
                self.x.elems[self.seed.num[1]] = self.beam_length.num
    /\ (/\ last.calls = 1
        /\ Nondegenerate(self)
        /\ PairOf(self) \in SupportedPairs
        /\ self.seed = Integer(1)) =>
          /\ last.raised = "none"
          /\ Populated(self)
          /\ self.x = List(<< R(0) >>)
          /\ \A n \in ResultNames : Len(self[n].elems) = 1

\* a beam of length 2 was resampled from four nodes to one: x is the single
\* position 0 and the results are defined
C24_Witness ==
    /\ last.kind = "set"
    /\ last.field = "seed"
    /\ last.value = Integer(1)
    /\ self.beam_length = Float(2)
    /\ self.x = List(<< R(0) >>)
    /\ Populated(self)

\* the step is a setter call with a truthy value on an object holding
\* defined results, and the fields fail validation after it
InvalidatingStep ==
    /\ last'.kind = "set"
    /\ last'.field # "fail_silently"
    /\ Truthy(last'.value)
    /\ Populated(self)
    /\ ~Validated(self')

\* C25: when a beam holding valid results is given a truthy field value that
\* fails validation, the setter recomputes, no case formula is evaluated and
\* the eight outputs are NaN: no value of the earlier computation survives.
C25_InvalidValueClearsOutputs ==
    [][InvalidatingStep =>
          /\ last'.calls = 1
          /\ self'[last'.field] = last'.value
          /\ AllNaN(self')
      ]_vars

\* a solved Clamped/Free beam was given the length -1 and its outputs are NaN
C25_Witness ==
    /\ last.kind = "set"
    /\ last.field = "beam_length"
    /\ last.value = Float(-1)
    /\ ops = 1
    /\ PairOf(self) = <<"Clamped", "Free">>
    /\ ~Validated(self)
    /\ AllNaN(self)

\* the constructor was given valid fields in silent mode with a supported
\* pair and a zero length or a zero rigidity
BuiltDegenerate ==
    /\ last.kind = "init"
    /\ Validated(self)
    /\ Silenced(self)
    /\ PairOf(self) \in SupportedPairs
    /\ (self.beam_length.num = R(0) \/ ZeroRigidity(self))

\* C26: a zero beam length or a zero rigidity passed to the constructor is a
\* failure for every supported pair: in silent mode the constructor returns
\* and the four boundary values and the four results are NaN.
C26_DegenerateBeamFails ==
    BuiltDegenerate => (last.raised = "none" /\ AllNaN(self))

\* C27: a load position outside the beam (load_xmax < 0 or
\* load_xmax > beam_length) is not an error: for a supported pair and
\* otherwise nondegenerate fields the computation completes in silent and in
\* strict mode and every boundary value and result is defined.
C27_LoadOffBeamComputes ==
    (/\ last.calls = 1
     /\ Nondegenerate(self)
     /\ PairOf(self) \in SupportedPairs
     /\ ~LoadOnBeam(self)) =>
        (last.raised = "none" /\ Populated(self))

\* a Support/Clamped beam of length 2 was built in strict mode with the load
\* at -1, left of the beam, and its results are defined
C27_Witness ==
    /\ last.kind = "init"
    /\ self.fail_silently = Bool(FALSE)
    /\ PairOf(self) = <<"Support", "Clamped">>
    /\ self.beam_length = Float(2)
    /\ self.load_xmax = Float(-1)
    /\ self.seed = Integer(MaxSeed)
    /\ last.raised = "none"
    /\ Populated(self)

\* C28: assigning fail_silently, whatever the value and the state of the
\* object, runs no recompute, raises nothing and changes only that field:
\* the boundary values, the results, x and multiplier stay; the new mode
\* decides how the next calculate() ends.
C28_ModeSetterOnlyStores ==
    [][/\ (last'.kind = "set" /\ last'.field = "fail_silently") =>
             /\ self' = [self EXCEPT !.fail_silently = last'.value]
             /\ last'.calls = 0
             /\ last'.raised = "none"
       /\ (last.kind = "set" /\ last.field = "fail_silently"
              /\ last'.kind = "calculate") =>
             /\ self'.fail_silently = last.value
             /\ last'.raised = Recomputed(self).raised
             /\ last'.raised # "none" => ~Silenced(self) \/ last'.raised = "TypeError"
      ]_vars

\* a Free/Free beam built in silent mode, its outputs NaN, was switched to
\* strict mode without an exception, and the calculate() that followed raised
C28_Witness ==
    /\ fixture
    /\ ops = 2
    /\ last.kind = "calculate"
    /\ PairOf(self) = <<"Free", "Free">>
    /\ self.fail_silently = Bool(FALSE)
    /\ last.raised = "UnboundLocalError"
    /\ AllNaN(self)

\* the step is a recompute that fails validation on an object holding the
\* defined results of an earlier computation
InvalidRecompute ==
    /\ last'.calls = 1
    /\ ~Validated(self')
    /\ Populated(self)

\* C29: the failure reset does not cover the axis positions: when a
\* recompute fails validation after an earlier successful computation, the
\* four results (and the four boundary values) are NaN while x and
\* multiplier keep the values of the earlier computation.
C29_AxisSurvivesFailure ==
    [][InvalidRecompute =>
          /\ \A n \in OutputNames : self'[n] = NaNAttr
          /\ self'.x = self.x
          /\ self'.multiplier = self.multiplier
          /\ self'.x.kind = "list"
      ]_vars

\* a beam solved on three nodes over the length 2 was given the length -1:
\* its results are NaN and x still ends at 2
C29_Witness ==
    /\ last.kind = "set"
    /\ last.field = "beam_length"
    /\ last.value = Float(-1)
    /\ ops = 1
    /\ self.shear_force = NaNAttr
    /\ self.x = List(<< R(0), R(1), R(2) >>)
    /\ self.multiplier.kind = "list"
    /\ self.seed = Integer(MaxSeed)

\* the fields of o are valid with a supported pair
ValidSupported(o) == Validated(o) /\ PairOf(o) \in SupportedPairs

\* the step is a recompute (a setter call with a truthy value, or
\* calculate()) of a valid supported configuration on an object whose
\* outputs are NaN, and whose last recompute was not of such a configuration
Recovering ==
    /\ Exists
    /\ AllNaN(self)
    /\ ~(last.calls = 1 /\ ValidSupported(self))
    /\ last'.calls = 1
    /\ ValidSupported(self')

\* the object of the next state has defined outputs, those of a fresh object
\* with the same fields
Recovered ==
    /\ last'.raised = "none"
    /\ Populated(self')
    /\ UpToDate(self')

\* C30 as stated: the NaN failure state is not sticky: a setter call with a
\* truthy value that makes the configuration valid and supported, or such
\* field changes followed by calculate(), brings the object back to defined
\* outputs equal to those of a fresh object with the same fields.
C30_FailureNotStickyValid == [][Recovering => Recovered]_vars

\* C30 as amended: the same for a valid supported configuration with a beam
\* length and a rigidity above zero.
C30_FailureNotSticky ==
    [][(Recovering /\ Nondegenerate(self')) => Recovered]_vars

\* the Free/Free beam, built with NaN outputs, was given a Clamped right end
\* and holds defined results
C30_Witness ==
    /\ fixture
    /\ ops = 1
    /\ last.kind = "set"
    /\ last.field = "supporttype_right"
    /\ PairOf(self) = <<"Free", "Clamped">>
    /\ Populated(self)
    /\ UpToDate(self)

====
